---- MODULE Spec2Model ----
(***************************************************************************)
(* A model of Hikari (src/main.py): the playlist-to-filesystem sync, the   *)
(* edit queue and the playback state it races with.                        *)
(*                                                                         *)
(* File names and titles are sequences of one-character strings, so that   *)
(* sanitize_filename, the "N - title.mp3" encoding and split(" - ", 1) are *)
(* computed the way the code computes them.  ".mp3" is one token.          *)
(***************************************************************************)
EXTENDS Integers, Sequences, FiniteSets, TLC

----------------------------------------------------------------------------
(* Bounds of the model *)

\* longest playlist the reconciliation specification draws
MaxTracks == 2
\* most files in a staged listing the reconciliation specification draws
MaxStaged == 2
\* sync_playlist invocations in one behaviour of Spec
MaxSyncs == 2
\* /play commands in one behaviour of Spec
MaxPlays == 1
\* user commands in one behaviour of PlaySpec
MaxCommands == 3
\* a song lasts longer than it takes to deal with this many refreshes and callbacks
MaxBacklog == 4
\* the largest exit code of an ffmpeg run
MaxExitCode == 2
\* on_ready events in one behaviour of ReadySpec
MaxReady == 3
\* characters in a track title of CodecSpec
MaxTitleLen == 5
\* playlist positions in CodecSpec
MaxPos == 2
\* autoplay selections in one behaviour of HistorySpec
MaxPicks == 2

----------------------------------------------------------------------------
(* Filename codec *)

Range(s) == {s[i] : i \in 1..Len(s)}

\* a playlist item whose 'track' is None (item.get('track') is falsy)
NoTrack == <<"<no track>">>

\* the character class of the re.sub in sanitize_filename
Hostile == {"\\", "/", "*", "?", ":", "\"", "<", ">", "|"}

RECURSIVE LStrip(_, _)
LStrip(s, cs) == IF s # <<>> /\ Head(s) \in cs THEN LStrip(Tail(s), cs) ELSE s

RECURSIVE RStrip(_, _)
RStrip(s, cs) ==
    IF s # <<>> /\ s[Len(s)] \in cs THEN RStrip(SubSeq(s, 1, Len(s) - 1), cs) ELSE s

IsHostile(c) == c \in Hostile

IsPlain(c) == ~IsHostile(c)

\* re.sub(r'[\\/*?:"<>|]', "", name).strip().rstrip(' .')
sanitize_filename(name) ==
    RStrip(RStrip(LStrip(SelectSeq(name, IsPlain), {" "}), {" "}), {" ", "."})

\* str(n) for a playlist position
Digits == <<"1", "2", "3", "4", "5", "6", "7", "8", "9">>

Str(n) == <<Digits[n]>>

Mp3 == <<".mp3">>

\* sanitize_filename(item['track']['name']) + ".mp3"
ContentName(title) == sanitize_filename(title) \o Mp3

\* f"{i+1} - {sanitize_filename(name)}.mp3"; pos is the 1-based position i+1
Encode(pos, title) == Str(pos) \o <<" ", "-", " ">> \o sanitize_filename(title) \o Mp3

SepAt(f, k) == k + 2 <= Len(f) /\ f[k] = " " /\ f[k + 1] = "-" /\ f[k + 2] = " "

\* " - " in filename
HasSep(f) == \E k \in 1..Len(f) : SepAt(f, k)

\* a split at the last " - " of the filename
LastSep(f) == CHOOSE k \in 1..Len(f) : SepAt(f, k) /\ \A j \in (k + 1)..Len(f) : ~SepAt(f, j)

FirstSep(f) == CHOOSE k \in 1..Len(f) : SepAt(f, k) /\ \A j \in 1..(k - 1) : ~SepAt(f, j)

\* filename.split(" - ", 1)[1]
SplitTail(f) == SubSeq(f, FirstSep(f) + 3, Len(f))

----------------------------------------------------------------------------
(* Actions a sync issues *)

NoPath == <<>>

Delete(p, s) == [op |-> "Delete", src |-> p, dst |-> NoPath, sync |-> s]

Rename(p, d, s) == [op |-> "Rename", src |-> p, dst |-> d, sync |-> s]

Download(d, s) == [op |-> "Download", src |-> NoPath, dst |-> d, sync |-> s]

SwapDirectories(s) == [op |-> "SwapDirectories", src |-> NoPath, dst |-> NoPath, sync |-> s]

\* update_status_message as a queued edit; it belongs to no sync
RefreshStatus == [op |-> "RefreshStatus", src |-> NoPath, dst |-> NoPath, sync |-> 0]

----------------------------------------------------------------------------
(* Reconciliation: lines 444-536 of sync_playlist *)

Positions(tracks) == [i \in 1..Len(tracks) |-> i]

HasTrack(tracks, i) == tracks[i] # NoTrack

\* Counter(content_names): names counted more than once
duplicate_content_names(tracks) ==
    {ContentName(tracks[i]) : i \in {j \in 1..Len(tracks) :
        /\ HasTrack(tracks, j)
        /\ \E k \in 1..Len(tracks) :
              k # j /\ HasTrack(tracks, k) /\ ContentName(tracks[k]) = ContentName(tracks[j])}}

\* the positions whose ideal filename is a key of ideal_state_unique, in playlist order
ideal_state_unique(tracks) ==
    LET Unique(i) == HasTrack(tracks, i)
                     /\ ContentName(tracks[i]) \notin duplicate_content_names(tracks)
    IN  SelectSeq(Positions(tracks), Unique)

\* a local map that keeps the files whose content-key collides
local_state_all(tracks, listing) == SelectSeq(listing, HasSep)

\* the keys of local_state_unique, in os.listdir order
local_state_unique(tracks, listing) ==
    LET Local(f) == HasSep(f) /\ SplitTail(f) \notin duplicate_content_names(tracks)
    IN  SelectSeq(listing, Local)

\* a delete pass that finds no content name in the playlist
NoIdealContents(tracks) == {}

IdealUniqueContents(tracks) ==
    {ContentName(tracks[i]) : i \in Range(ideal_state_unique(tracks))}

\* lines 473-486
QueuedDeletes(tracks, listing, s) ==
    LET Stale(f) == SplitTail(f) \notin IdealUniqueContents(tracks)
        stale == SelectSeq(local_state_unique(tracks, listing), Stale)
    IN  [k \in 1..Len(stale) |-> Delete(stale[k], s)]

\* a rename test that forgets to compare the full names
NeedsRenameByContent(ideal_full, ideal_content, local_full, local_content) ==
    ideal_content = local_content

\* ideal_content == local_content and ideal_full != local_full
NeedsRename(ideal_full, ideal_content, local_full, local_content) ==
    ideal_content = local_content /\ ideal_full # local_full

\* lines 488-503: for each ideal entry, for each local entry
QueuedRenames(tracks, listing, s) ==
    LET ideal == ideal_state_unique(tracks)
        local == local_state_unique(tracks, listing)
        n == Len(local)
        pairs == [k \in 1..(Len(ideal) * n) |->
                    [i |-> ideal[((k - 1) \div n) + 1], f |-> local[((k - 1) % n) + 1]]]
        Moved(p) == NeedsRename(Encode(p.i, tracks[p.i]), ContentName(tracks[p.i]),
                                p.f, SplitTail(p.f))
        moved == SelectSeq(pairs, Moved)
    IN  [k \in 1..Len(moved) |-> Rename(moved[k].f, Encode(moved[k].i, tracks[moved[k].i]), s)]

\* a duplicate pass that counts no staged file as ideal
no_ideal_filenames(tracks) == {}

\* lines 506-510
ideal_filenames_duplicates(tracks) ==
    {Encode(i, tracks[i]) : i \in {j \in 1..Len(tracks) :
        HasTrack(tracks, j) /\ ContentName(tracks[j]) \in duplicate_content_names(tracks)}}

\* lines 511-525
QueuedDuplicateDeletes(tracks, listing, s) ==
    LET StaleDup(f) == /\ HasSep(f)
                       /\ SplitTail(f) \in duplicate_content_names(tracks)
                       /\ f \notin ideal_filenames_duplicates(tracks)
        stale == SelectSeq(listing, StaleDup)
    IN  [k \in 1..Len(stale) |-> Delete(stale[k], s)]

\* a missing test by content-key: a track staged under any position counts as present
IsMissingByKey(ideal_filename, current_temp_files) ==
    \A f \in current_temp_files : ~HasSep(f) \/ SplitTail(f) # SplitTail(ideal_filename)

\* ideal_filename not in current_temp_files
IsMissing(ideal_filename, current_temp_files) == ideal_filename \notin current_temp_files

\* lines 527-536: the ideal filenames of missing_tracks, in playlist order
missing_tracks(tracks, current_temp_files) ==
    LET Missing(i) == HasTrack(tracks, i) /\ IsMissing(Encode(i, tracks[i]), current_temp_files)
        missing == SelectSeq(Positions(tracks), Missing)
    IN  [k \in 1..Len(missing) |-> Encode(missing[k], tracks[missing[k]])]

\* the ideal filename set of a playlist
IdealSet(tracks) == {Encode(i, tracks[i]) : i \in {j \in 1..Len(tracks) : HasTrack(tracks, j)}}

\* outtmpl is filepath + '.%(ext)s' and the postprocessor extracts mp3: the file
\* yt_dlp leaves is filepath + ".mp3"
DownloadedPath(filepath) == filepath \o Mp3

\* the orders os.listdir can return the files of a directory in
Listings(files) ==
    {l \in [1..Cardinality(files) -> files] : \A i, j \in 1..Cardinality(files) : l[i] = l[j] => i = j}

----------------------------------------------------------------------------
(* State *)

VARIABLES
    songs,                    \* SONGS_DIR: [exists, files]
    temp,                     \* TEMP_DIR: [exists, files]
    ready,                    \* on_ready has run
    queueReady,               \* edit_queue is not None
    queue,                    \* edit_queue
    batch,                    \* tasks_to_run of _edit_queue_processor
    procPc,                   \* _edit_queue_processor: "sleep", "run", "await" or "except"
    enqLog,                   \* history: the edits put on the queue and not yet started
    syncs,                    \* the sync_playlist invocations
    g_spotify_tracks,
    g_last_sync_time,         \* 0: None; else the invocation that set it
    g_currently_playing_info, \* NoInfo, or the file being played
    g_manual_stop,
    vcPlaying,                \* voice_client.is_playing()
    afterDue,                 \* players stopped whose _after callback has not run yet
    loopCalls,                \* coroutines submitted by run_coroutine_threadsafe, not yet run
    plays,                    \* /play commands so far
    g_autoplay_enabled,
    cmds,                     \* user commands so far in the playback specification
    skipWait,                 \* /skip handlers awaiting their reply (line 868)
    autoWait,                 \* /autoplay handlers awaiting their reply (line 833)
    flagSets,                 \* history: times a user action set g_manual_stop
    suppressions,             \* history: play_next_song invocations that returned at line 630
    dTracks, dStaged, dIssued, dNext, dDir, dPhase   \* the reconciliation specification

fsVars == <<songs, temp>>

queueVars == <<queueReady, queue, batch, procPc, enqLog>>

syncVars == <<syncs, g_spotify_tracks, g_last_sync_time>>

playVars == <<g_currently_playing_info, g_manual_stop, vcPlaying, afterDue, loopCalls, plays>>

sysVars == <<fsVars, ready, queueVars, syncVars, playVars>>

\* ffmpeg_normalize_and_trim, one call
VARIABLES
    inputFile,                \* what input_path holds
    original,                 \* what input_path held when the function was called
    tmpFile,                  \* what tmp_path (.processing.mp3) holds
    tmpFile2,                 \* what tmp_path2 (.processing2.mp3) holds
    res,                      \* exit code of the first ffmpeg run, <<>> before it
    res2,                     \* exit code of the fallback run, <<>> before it
    returned,                 \* the value returned, <<>> before the return
    ffPc                      \* "off", "called", "ran", "fallback" or "returned"

\* the environment the bot was started in
VARIABLES
    sp                        \* the Spotify client was created (TRUE) or sp is None

\* the on_ready handlers, followed in ReadySpec
VARIABLES
    onReady,                  \* where the handler of each on_ready event stands
    processors,               \* _edit_queue_processor tasks created
    queuesMade                \* asyncio.Queue() objects assigned to edit_queue

readyVars == <<onReady, processors, queuesMade>>

\* one trip through the filename codec, followed in CodecSpec
VARIABLES
    cTitle,                   \* item['track']['name']
    cPos,                     \* the track's playlist position, from 1
    cName,                    \* the ideal filename built from them
    cKey,                     \* the content name read back from the filename
    cPc                       \* "off", "title", "encoded" or "decoded"

codecVars == <<cTitle, cPos, cName, cKey, cPc>>

\* the autoplay selection of play_next_song, followed in HistorySpec
VARIABLES
    hSongs,                   \* song_list, the songs numbered from 1
    g_recently_played,        \* the deque of the songs autoplay picked last
    attempts,                 \* attempts of the selection loop under way
    hFound,                   \* found_song_filename of the last selection, 0 before it
    hPicks                    \* selections made

historyVars == <<hSongs, g_recently_played, attempts, hFound, hPicks>>

\* the status message and its refreshes, followed in StatusSpec
VARIABLES
    clock,                    \* time.time(), in ticks
    g_last_edit_time,         \* the stamp of line 292, in ticks
    g_status_message,         \* the id of the message held, 0 for None
    channelMessages,          \* the ids of the status messages that exist in the channel
    statusFile,               \* the id in STATUS_MESSAGE_ID_FILE
    editTimes,                \* history: the time of each edit of the message that was made
    stRuns,                   \* history: the calls of update_status_message so far, modulo 2
    stPc                      \* "off", "idle": no refresh runs; "presence": one awaits

statusVars == <<clock, g_last_edit_time, g_status_message, channelMessages, statusFile,
                editTimes, stRuns, stPc>>

\* the autoplay-state record, followed in PersistSpec
VARIABLES
    autoplay_state,           \* the dict of line 80: last_played, autoplay_enabled
    stateFile,                \* what AUTOPLAY_STATE_FILE holds, <<>> when there is no file
    connected,                \* guild.voice_client is there and connected
    psPc                      \* "off" or "on"

persistVars == <<autoplay_state, stateFile, connected, psPc>>

moreVars == <<statusVars, persistVars>>

extVars == <<sp, readyVars, codecVars, historyVars, moreVars>>

ffmpegVars == <<inputFile, original, tmpFile, tmpFile2, res, res2, returned, ffPc>>

diffVars == <<dTracks, dStaged, dIssued, dNext, dDir, dPhase>>

ctlVars == <<g_autoplay_enabled, cmds, skipWait, autoWait, flagSets, suppressions>>

auxVars == <<diffVars, ctlVars, ffmpegVars, extVars>>

vars == <<sysVars, diffVars, ctlVars, ffmpegVars, extVars>>

----------------------------------------------------------------------------
(* Directories and the edits' effects *)

Gone == [exists |-> FALSE, files |-> {}]

Dir(files) == [exists |-> TRUE, files |-> files]

\* _del / _deldup: os.remove(p), FileNotFoundError passed over
RunDelete(e, w) ==
    IF w.temp.exists THEN [w EXCEPT !.temp.files = @ \ {e.src}] ELSE w

\* _rename: os.rename(s, d), FileNotFoundError passed over; the destination is replaced
RunRename(e, w) ==
    IF w.temp.exists /\ e.src \in w.temp.files
    THEN [w EXCEPT !.temp.files = (@ \ {e.src}) \cup {e.dst}]
    ELSE w

\* _swap_dirs: rmtree(SONGS_DIR) if it exists, then os.rename(TEMP_DIR, SONGS_DIR);
\* the rename raises when TEMP_DIR is gone and the exception is only logged
RunSwap(e, w) ==
    IF w.temp.exists
    THEN [w EXCEPT !.songs = w.temp, !.temp = Gone]
    ELSE [w EXCEPT !.songs = Gone]

\* _download_and_process: os.makedirs(TEMP_DIR, exist_ok=True), then yt_dlp leaves its file
RunDownload(e, w) == [w EXCEPT !.temp = Dir(@.files \cup {DownloadedPath(e.dst)})]

\* await coro_callable() for one edit
RunEdit(e, w) ==
    CASE e.op = "Delete" -> RunDelete(e, w)
      [] e.op = "Rename" -> RunRename(e, w)
      [] e.op = "SwapDirectories" -> RunSwap(e, w)
      [] OTHER -> w

\* a queue that hands out the newest edit first
QueuePutFront(q, e) == <<e>> \o q

\* await edit_queue.put(coro)
QueuePut(q, e) == Append(q, e)

\* enqueue_edit: put the edit on the queue, or run it at once while edit_queue is None
enqueue_edit(e, w) ==
    IF w.queueReady
    THEN [w EXCEPT !.queue = QueuePut(@, e), !.enqLog = Append(@, e)]
    ELSE RunEdit(e, w)

\* await enqueue_edit(...) for each of edits in turn
RECURSIVE EnqueueAll(_, _)
EnqueueAll(edits, w) ==
    IF edits = <<>> THEN w ELSE EnqueueAll(Tail(edits), enqueue_edit(Head(edits), w))

\* the part of the state a sync reads and changes through enqueue_edit
World == [songs |-> songs, temp |-> temp, queueReady |-> queueReady,
          queue |-> queue, enqLog |-> enqLog]

SetWorld(w) ==
    /\ songs' = w.songs
    /\ temp' = w.temp
    /\ queue' = w.queue
    /\ enqLog' = w.enqLog

----------------------------------------------------------------------------
(* The inputs Spec draws *)

TitleA == <<"a">>

TitleB == <<"b">>

TitleC == <<"c">>

\* the playlists sp.playlist_tracks can return
SysPlaylists == { <<TitleA>>, <<TitleC, TitleA>> }

\* the songs directory the bot can start with
SysLibraries == { Gone, Dir({Encode(2, TitleA), Encode(1, TitleC)}) }

NoInfo == <<>>

\* the results of the downloads that have finished, by target file
NoResults == [f \in {} |-> "ok"]

IdleSync == [pc |-> "idle", manual |-> FALSE, pending |-> {}, outcome |-> "none",
             submitted |-> {}, results |-> NoResults, downloaded |-> 0]

\* a sync_playlist invocation that returned with the given outcome
DoneSync(outcome) == [IdleSync EXCEPT !.pc = "done", !.outcome = outcome]

SyncIds == 1..MaxSyncs

----------------------------------------------------------------------------
(* sync_playlist *)

\* the event loop is not inside a handler: the consumer is not between two edits
\* of a batch that it runs without awaiting, nor in its except clause
LoopFree == procPc \notin {"run", "except"}

Started == {s \in SyncIds : syncs[s].pc # "idle"}

\* lines 590-605: queue the swap, stamp the sync time, queue the status refresh
SwapLast(s, w) == enqueue_edit(RefreshStatus, enqueue_edit(SwapDirectories(s), w))

\* the summary (lines 607-610) reports downloaded_count
FinishSync(s, w, downloaded_count) ==
    /\ SetWorld(SwapLast(s, w))
    /\ g_last_sync_time' = s
    /\ syncs' = [syncs EXCEPT ![s] = [DoneSync("queued") EXCEPT !.downloaded = downloaded_count]]

\* an except clause that goes on to queue the swap and the refresh
FailsIntoSwap(s, w) ==
    /\ SetWorld(SwapLast(s, w))
    /\ syncs' = [syncs EXCEPT ![s] = DoneSync("error")]
    /\ UNCHANGED g_last_sync_time

\* lines 611-614 after the staging and the queued edits: track_info['artists'][0]
\* (line 574) raises for the first missing track, before any download is submitted
ScheduleFails(s, w) ==
    /\ SetWorld(w)
    /\ syncs' = [syncs EXCEPT ![s] = DoneSync("error")]
    /\ UNCHANGED g_last_sync_time

\* a fetch that fails only once the staging directory was made and g_spotify_tracks reset
FetchFailsStaged(s) ==
    /\ syncs' = [syncs EXCEPT ![s] = DoneSync("unreachable")]
    /\ temp' = Dir(IF songs.exists THEN songs.files ELSE {})
    /\ g_spotify_tracks' = <<>>
    /\ UNCHANGED <<songs, queue, enqLog, g_last_sync_time>>

\* sp.playlist_tracks or sp.next raises (lines 434-441): nothing was staged,
\* g_spotify_tracks (assigned at line 442) keeps its value
FetchFails(s) ==
    /\ syncs' = [syncs EXCEPT ![s] = DoneSync("unreachable")]
    /\ UNCHANGED <<fsVars, queue, enqLog, g_spotify_tracks, g_last_sync_time>>

\* lines 418-422: if not sp: return
SpotifyDown(s) ==
    /\ syncs' = [syncs EXCEPT ![s] = DoneSync("down")]
    /\ UNCHANGED <<fsVars, queue, enqLog, g_spotify_tracks, g_last_sync_time>>

\* lines 434-588 up to the wait for the downloads
Reconcile(s, m) ==
    \E tracks \in SysPlaylists :
        LET w0 == [World EXCEPT !.temp = Dir(IF songs.exists THEN songs.files ELSE {})]
        IN  \E l1 \in Listings(w0.temp.files) :
            LET dels == QueuedDeletes(tracks, l1, s)
                rens == QueuedRenames(tracks, l1, s)
                w1 == EnqueueAll(dels \o rens, w0)
            IN  \E l2 \in Listings(w1.temp.files) :
                LET dups == QueuedDuplicateDeletes(tracks, l2, s)
                    w2 == EnqueueAll(dups, w1)
                    missing == missing_tracks(tracks, w2.temp.files)
                    rec == [syncs[s] EXCEPT !.pc = "downloading", !.manual = m,
                                            !.pending = Range(missing),
                                            !.submitted = Range(missing)]
                IN  /\ g_spotify_tracks' = tracks
                    /\ IF missing = <<>>
                       THEN FinishSync(s, w2, 0)
                       ELSE \/ /\ SetWorld(w2)
                               /\ syncs' = [syncs EXCEPT ![s] = rec]
                               /\ UNCHANGED g_last_sync_time
                            \/ ScheduleFails(s, w2)

SyncPipeline(s, m) == FetchFails(s) \/ Reconcile(s, m)

\* lines 413-417
Postponed(s) ==
    /\ syncs' = [syncs EXCEPT ![s] = DoneSync("postponed")]
    /\ UNCHANGED <<fsVars, queue, enqLog, g_spotify_tracks, g_last_sync_time>>

\* a sync that does not look at the playback state
NoPlaybackGuard == FALSE

\* the start-of-sync guard
PlaybackInProgress == g_currently_playing_info # NoInfo

\* scheduled_sync: sync_playlist() without a channel runs to its first real await
ScheduledSync ==
    /\ LoopFree /\ ready
    /\ \A t \in Started : syncs[t].manual \/ syncs[t].pc = "done"
    /\ \E s \in SyncIds :
        /\ s = Cardinality(Started) + 1
        /\ IF PlaybackInProgress THEN Postponed(s)
           ELSE IF ~sp THEN SpotifyDown(s)
           ELSE SyncPipeline(s, FALSE)
    /\ UNCHANGED <<ready, queueReady, batch, procPc, playVars, auxVars>>

\* /sync: create_task(sync_playlist(channel)); it awaits channel.send (line 431)
\* after the guard
ManualSync ==
    /\ LoopFree
    /\ \E s \in SyncIds :
        /\ s = Cardinality(Started) + 1
        /\ IF PlaybackInProgress
           THEN Postponed(s)
           ELSE IF ~sp THEN SpotifyDown(s)
           ELSE /\ syncs' = [syncs EXCEPT ![s] = [@ EXCEPT !.pc = "announced", !.manual = TRUE]]
                /\ UNCHANGED <<fsVars, queue, enqLog, g_spotify_tracks, g_last_sync_time>>
    /\ UNCHANGED <<ready, queueReady, batch, procPc, playVars, auxVars>>

\* the manual sync resumes after line 431
ManualSyncResumes ==
    /\ LoopFree
    /\ \E s \in SyncIds : syncs[s].pc = "announced" /\ SyncPipeline(s, TRUE)
    /\ UNCHANGED <<ready, queueReady, batch, procPc, playVars, auxVars>>

\* what a download's future can hold: True, False (yt_dlp raised, lines 568-570)
\* or an exception of the executor
DownloadResults == {"ok", "failed", "raised"}

\* a count that takes every truthy result, exception objects included
CountsTruthy(r) == r # "failed"

\* lines 584-588: an exception is logged, a true result is counted
Counts(r) == r = "ok"

downloaded_count(results) == Cardinality({f \in DOMAIN results : Counts(results[f])})

\* _download_and_process on a worker thread: makedirs, then yt_dlp writes the file or raises
DownloadRuns ==
    /\ \E s \in SyncIds : \E f \in syncs[s].pending : \E r \in DownloadResults :
        /\ syncs[s].pc = "downloading"
        /\ temp' = IF r = "ok" THEN RunDownload(Download(f, s), World).temp ELSE Dir(temp.files)
        /\ syncs' = [syncs EXCEPT ![s].pending = @ \ {f},
                                  ![s].results = [g \in DOMAIN @ \cup {f} |-> IF g = f THEN r ELSE @[g]]]
    /\ UNCHANGED <<songs, ready, queueVars, g_spotify_tracks, g_last_sync_time, playVars, auxVars>>

\* asyncio.gather returned: lines 584-605
DownloadsDone ==
    /\ LoopFree
    /\ \E s \in SyncIds :
        /\ syncs[s].pc = "downloading" /\ syncs[s].pending = {}
        /\ FinishSync(s, World, downloaded_count(syncs[s].results))
    /\ UNCHANGED <<ready, queueReady, batch, procPc, g_spotify_tracks, playVars, auxVars>>

----------------------------------------------------------------------------
(* _edit_queue_processor *)

\* a drain that collects the queue newest first
RECURSIVE tasks_to_run_reversed(_, _)
tasks_to_run_reversed(q, got) ==
    IF q = <<>> THEN got ELSE tasks_to_run_reversed(Tail(q), <<Head(q)>> \o got)

\* a drain that lists every item it gets twice
RECURSIVE tasks_to_run_twice(_, _)
tasks_to_run_twice(q, got) ==
    IF q = <<>> THEN got ELSE tasks_to_run_twice(Tail(q), got \o <<Head(q), Head(q)>>)

\* lines 946-949: get every item now on the queue, in queue order
RECURSIVE tasks_to_run(_, _)
tasks_to_run(q, got) == IF q = <<>> THEN got ELSE tasks_to_run(Tail(q), Append(got, Head(q)))

RECURSIVE RemoveFirst(_, _)
RemoveFirst(log, e) ==
    IF log = <<>> THEN <<>>
    ELSE IF Head(log) = e THEN Tail(log) ELSE <<Head(log)>> \o RemoveFirst(Tail(log), e)

\* the consumer wakes from asyncio.sleep(5) and empties the queue
ProcDrain ==
    /\ ready /\ procPc = "sleep" /\ queue # <<>>
    /\ batch' = tasks_to_run(queue, <<>>)
    /\ queue' = <<>>
    /\ procPc' = "run"
    /\ UNCHANGED <<fsVars, ready, queueReady, enqLog, syncVars, playVars, auxVars>>

\* update_status_message returns at a guard (lines 285-291), goes on to await
\* change_presence and the message edit, or raises while it builds the embed; the
\* filesystem edits never await and catch what they raise
Outcomes(e) == IF e.op = "RefreshStatus" THEN {"returns", "awaits", "raises"} ELSE {"returns"}

\* where the consumer stands once an edit has returned and rest is left of the batch
Continue(rest) == IF rest = <<>> THEN "sleep" ELSE "run"

\* for coro_callable in tasks_to_run: await coro_callable()
ProcExec ==
    /\ procPc = "run"
    /\ LET e == Head(batch)
           w == RunEdit(e, World)
       IN  /\ songs' = w.songs
           /\ temp' = w.temp
           /\ enqLog' = RemoveFirst(enqLog, e)
           /\ batch' = Tail(batch)
           /\ \E outcome \in Outcomes(e) :
                procPc' = CASE outcome = "awaits" -> "await"
                            [] outcome = "raises" -> "except"
                            [] OTHER -> Continue(Tail(batch))
    /\ UNCHANGED <<ready, queueReady, queue, syncVars, playVars, auxVars>>

\* the awaited edit returns and the batch goes on or the consumer sleeps, or the
\* edit raises after its await
ProcResume ==
    /\ procPc = "await"
    /\ \E raises \in BOOLEAN : procPc' = IF raises THEN "except" ELSE Continue(batch)
    /\ UNCHANGED <<fsVars, ready, queueReady, queue, batch, enqLog, syncVars, playVars, auxVars>>

\* a drain that gives up its batch when an item raises
AbortBatch(rest) == <<>>

\* what is left to run of the batch after an item raised: the try is inside the for
\* loop (lines 952-957), so all of the rest
AfterRaise(rest) == rest

\* except Exception: log.exception(...), then the next item of the batch
ProcCatch ==
    /\ procPc = "except"
    /\ batch' = AfterRaise(batch)
    /\ procPc' = Continue(batch')
    /\ UNCHANGED <<fsVars, ready, queueReady, queue, enqLog, syncVars, playVars, auxVars>>

----------------------------------------------------------------------------
(* on_ready *)

\* creates the queue, queues the first status refresh, joins the voice channel and
\* starts scheduled_sync and the consumer
OnReady ==
    /\ ~ready /\ LoopFree
    /\ ready' = TRUE
    /\ queueReady' = TRUE
    /\ queue' = QueuePut(queue, RefreshStatus)
    /\ enqLog' = Append(enqLog, RefreshStatus)
    /\ UNCHANGED <<fsVars, batch, procPc, syncVars, playVars, auxVars>>

----------------------------------------------------------------------------
(* Playback *)

\* a name /play can be given that is no file of the library
NoSuchSong == Encode(9, TitleC)

\* update_now_playing(info, loop): set the record, submit the status refresh
\* thread-safely (enqueue_edit_threadsafe with a queue: put is run by the loop later)
update_now_playing(info) ==
    /\ g_currently_playing_info' = info
    /\ loopCalls' = Append(loopCalls, "put_status")

\* the /play handler for the name song: stop what plays (flagging a manual stop),
\* return if the file is not there, else play_file
play(song) ==
    /\ plays' = plays + 1
    /\ g_manual_stop' = (g_manual_stop \/ vcPlaying)
    /\ flagSets' = flagSets + (IF vcPlaying THEN 1 ELSE 0)
    /\ afterDue' = afterDue + (IF vcPlaying THEN 1 ELSE 0)
    /\ IF songs.exists /\ song \in songs.files
       THEN /\ update_now_playing(song)
            /\ vcPlaying' = TRUE
       ELSE /\ vcPlaying' = FALSE
            /\ UNCHANGED <<g_currently_playing_info, loopCalls>>

\* /play
Play ==
    /\ LoopFree /\ ready /\ plays < MaxPlays
    /\ \E song \in (songs.files \cup {NoSuchSong}) : play(song)
    /\ UNCHANGED <<fsVars, ready, queueVars, syncVars, diffVars, ffmpegVars, extVars,
                   g_autoplay_enabled, cmds, skipWait, autoWait, suppressions>>

\* _after: run_coroutine_threadsafe(play_next_song(guild), bot.loop)
after(calls) == Append(calls, "play_next")

\* a coroutine that the submitting thread runs itself, at once
RunsInCallback(free) == TRUE

\* asyncio.run_coroutine_threadsafe(coro, bot.loop): the coroutine is run by the
\* event loop, when the loop is not inside another handler
Marshaled(free) == free

\* the status refreshes and callbacks not yet dealt with
Backlog == Len(loopCalls) + Len(queue) + Len(batch)

\* the audio thread of a player calls _after when its source ends (natural) or
\* after voice_client.stop() ended it
PlayerEnds ==
    /\ \E natural \in {n \in BOOLEAN : IF n THEN vcPlaying /\ Backlog < MaxBacklog
                                               ELSE afterDue > 0} :
        /\ vcPlaying' = (vcPlaying /\ ~natural)
        /\ afterDue' = IF natural THEN afterDue ELSE afterDue - 1
    /\ loopCalls' = after(loopCalls)
    /\ UNCHANGED <<fsVars, ready, queueVars, syncVars, g_currently_playing_info,
                   g_manual_stop, plays, auxVars>>

\* the loop runs a submitted edit_queue.put(update_status_message)
LoopPut ==
    /\ Marshaled(LoopFree) /\ loopCalls # <<>> /\ Head(loopCalls) = "put_status"
    /\ loopCalls' = Tail(loopCalls)
    /\ queue' = QueuePut(queue, RefreshStatus)
    /\ enqLog' = Append(enqLog, RefreshStatus)
    /\ UNCHANGED <<fsVars, ready, queueReady, batch, procPc, syncVars,
                   g_currently_playing_info, g_manual_stop, vcPlaying, afterDue, plays, auxVars>>

\* n calls of update_now_playing, each submitting one status refresh
Puts(calls, n) == calls \o [k \in 1..n |-> "put_status"]

\* f.lower().endswith('.mp3')
EndsWithMp3(f) == f # <<>> /\ f[Len(f)] = ".mp3"

\* the files autoplay chooses from
song_list == IF songs.exists THEN {f \in songs.files : EndsWithMp3(f)} ELSE {}

\* play_next_song(guild).  calls is loopCalls without this invocation; q and log are
\* the queue and its history as the caller leaves them.  The pick is random.choice:
\* any file of song_list can come out.  play_file sets the record and starts the
\* player; voice_client.play raises while a player runs and the record is cleared
play_next_song(calls, q, log) ==
    IF g_manual_stop
    THEN /\ g_manual_stop' = FALSE
         /\ suppressions' = suppressions + 1
         /\ loopCalls' = calls
         /\ queue' = q /\ enqLog' = log
         /\ UNCHANGED <<g_currently_playing_info, vcPlaying, g_autoplay_enabled>>
    ELSE /\ UNCHANGED <<g_manual_stop, suppressions>>
         /\ IF ~g_autoplay_enabled
            THEN /\ g_currently_playing_info' = NoInfo
                 /\ loopCalls' = Puts(calls, 1)
                 /\ queue' = q /\ enqLog' = log
                 /\ UNCHANGED <<vcPlaying, g_autoplay_enabled>>
            ELSE IF song_list = {}
            THEN /\ g_currently_playing_info' = NoInfo
                 /\ g_autoplay_enabled' = FALSE
                 /\ loopCalls' = Puts(calls, 1)
                 /\ queue' = QueuePut(q, RefreshStatus)
                 /\ enqLog' = Append(log, RefreshStatus)
                 /\ UNCHANGED vcPlaying
            ELSE /\ \E found_song_filename \in song_list :
                      IF vcPlaying
                      THEN /\ g_currently_playing_info' = NoInfo
                           /\ loopCalls' = Puts(calls, 3)
                           /\ UNCHANGED vcPlaying
                      ELSE /\ g_currently_playing_info' = found_song_filename
                           /\ loopCalls' = Puts(calls, 2)
                           /\ vcPlaying' = TRUE
                 /\ queue' = q /\ enqLog' = log
                 /\ UNCHANGED g_autoplay_enabled

\* the loop runs a play_next_song submitted by _after
PlayNextSong ==
    /\ Marshaled(LoopFree) /\ loopCalls # <<>> /\ Head(loopCalls) = "play_next"
    /\ play_next_song(Tail(loopCalls), queue, enqLog)
    /\ UNCHANGED <<fsVars, ready, queueReady, batch, procPc, syncVars, afterDue, plays,
                   diffVars, ffmpegVars, extVars, cmds, skipWait, autoWait, flagSets>>

----------------------------------------------------------------------------
(* The bot *)

ReadyEvents == 1..MaxReady

\* no on_ready handler is being followed
ReadyOff == onReady = [e \in ReadyEvents |-> "none"] /\ processors = 0 /\ queuesMade = 0

\* no trip through the codec is being followed
CodecOff == cTitle = <<>> /\ cPos = 1 /\ cName = <<>> /\ cKey = <<>> /\ cPc = "off"

\* no autoplay selection is being followed
HistoryOff ==
    /\ hSongs = {} /\ g_recently_played = <<>> /\ attempts = 0
    /\ hFound = 0 /\ hPicks = 0

\* no refresh of the status message is being followed
StatusOff ==
    /\ clock = 0 /\ g_last_edit_time = 0 /\ g_status_message = 0
    /\ channelMessages = {} /\ statusFile = 0 /\ editTimes = <<>> /\ stRuns = 0
    /\ stPc = "off"

\* autoplay_state as lines 80-83 make it
DefaultState == [last_played |-> <<>>, autoplay_enabled |-> FALSE]

\* the autoplay-state record is not being followed
PersistOff ==
    /\ autoplay_state = DefaultState /\ stateFile = <<>>
    /\ connected = FALSE /\ psPc = "off"

MoreOff == StatusOff /\ PersistOff

\* the parts of the bot that only their own specification follows are at rest
ExtOff == ReadyOff /\ CodecOff /\ HistoryOff /\ MoreOff

\* no file of any kind
NoFile == <<>>

\* no call of ffmpeg_normalize_and_trim is being followed
FfmpegOff ==
    /\ inputFile = NoFile /\ original = NoFile /\ tmpFile = NoFile /\ tmpFile2 = NoFile
    /\ res = <<>> /\ res2 = <<>> /\ returned = <<>> /\ ffPc = "off"

DiffOff ==
    /\ dTracks = <<>> /\ dStaged = {} /\ dIssued = <<>>
    /\ dNext = 1 /\ dDir = {} /\ dPhase = "off"

SysInit ==
    /\ temp = Gone
    /\ ready = FALSE /\ queueReady = FALSE
    /\ queue = <<>> /\ batch = <<>> /\ procPc = "sleep" /\ enqLog = <<>>
    /\ syncs = [s \in SyncIds |-> IdleSync]
    /\ g_spotify_tracks = <<>> /\ g_last_sync_time = 0
    /\ g_currently_playing_info = NoInfo /\ g_manual_stop = FALSE
    /\ vcPlaying = FALSE /\ afterDue = 0 /\ loopCalls = <<>> /\ plays = 0
    /\ cmds = 0 /\ skipWait = 0 /\ autoWait = 0 /\ flagSets = 0 /\ suppressions = 0

\* g_autoplay_enabled as line 63 leaves it; PlayInit also starts from the value
\* autoplay_state.json can hold (line 88)
Init ==
    /\ songs \in SysLibraries /\ SysInit /\ DiffOff /\ FfmpegOff /\ g_autoplay_enabled = FALSE
    /\ sp \in BOOLEAN /\ ExtOff

Next ==
    \/ OnReady
    \/ ScheduledSync
    \/ ManualSync
    \/ ManualSyncResumes
    \/ DownloadRuns
    \/ DownloadsDone
    \/ ProcDrain
    \/ ProcExec
    \/ ProcResume
    \/ ProcCatch
    \/ Play
    \/ PlayerEnds
    \/ LoopPut
    \/ PlayNextSong

Spec == Init /\ [][Next]_vars

----------------------------------------------------------------------------
(* The reconciliation on its own: one playlist, one staged listing, the actions
   one sync issues, applied to the staging directory in the order issued *)

TitleAColon == <<"a", ":">>

DiffItems == {TitleA, TitleB, TitleAColon, NoTrack}

DiffPlaylists == UNION {[1..n -> DiffItems] : n \in 0..MaxTracks}

DiffFiles == {Encode(p, t) : p \in 1..(MaxTracks + 1), t \in {TitleA, TitleB}}

DiffListings == {S \in SUBSET DiffFiles : Cardinality(S) <= MaxStaged}

\* one issued action applied to the staging directory
ApplyIssued(e, files) ==
    LET w == [songs |-> Gone, temp |-> Dir(files)]
    IN  IF e.op = "Download" THEN RunDownload(e, w).temp.files
        ELSE IF e.op = "SwapDirectories" THEN files
        ELSE RunEdit(e, w).temp.files

\* everything one sync issues: lines 473-525 queued, 572-580 submitted, 601 queued
Issued(tracks, l1, l2, s) ==
    LET missing == missing_tracks(tracks, Range(l2))
    IN  QueuedDeletes(tracks, l1, s) \o QueuedRenames(tracks, l1, s)
        \o QueuedDuplicateDeletes(tracks, l2, s)
        \o [k \in 1..Len(missing) |-> Download(missing[k], s)]
        \o <<SwapDirectories(s)>>

DiffInit ==
    /\ songs = Gone /\ SysInit /\ FfmpegOff /\ g_autoplay_enabled = FALSE /\ sp = TRUE /\ ExtOff
    /\ dTracks \in DiffPlaylists
    /\ dStaged \in DiffListings
    /\ dIssued = <<>> /\ dNext = 1 /\ dDir = dStaged /\ dPhase = "input"

DiffIssue ==
    /\ dPhase = "input"
    /\ \E l1 \in Listings(dStaged) : \E l2 \in Listings(dStaged) :
         dIssued' = Issued(dTracks, l1, l2, 1)
    /\ dPhase' = "issued"
    /\ UNCHANGED <<sysVars, ctlVars, ffmpegVars, extVars, dTracks, dStaged, dNext, dDir>>

DiffApply ==
    /\ dPhase = "issued"
    /\ dDir' = ApplyIssued(dIssued[dNext], dDir)
    /\ dNext' = dNext + 1
    /\ dPhase' = IF dNext = Len(dIssued) THEN "applied" ELSE "issued"
    /\ UNCHANGED <<sysVars, ctlVars, ffmpegVars, extVars, dTracks, dStaged, dIssued>>

DiffNext == DiffIssue \/ DiffApply

DiffSpec == DiffInit /\ [][DiffNext]_vars

----------------------------------------------------------------------------
(* Playback on its own: the commands and buttons that start, stop and skip a
   track, the players' callbacks, and the consumer of the status refreshes *)

\* voice_client.stop() on a playing client, with g_manual_stop = True before it
\* (lines 228-229, 241-242, 852-853, 866-867)
ManualStop ==
    /\ g_manual_stop' = TRUE
    /\ flagSets' = flagSets + 1
    /\ vcPlaying' = FALSE
    /\ afterDue' = afterDue + 1

\* /play in the playback specification
PlayCommand ==
    /\ LoopFree /\ cmds < MaxCommands
    /\ cmds' = cmds + 1
    /\ \E song \in (songs.files \cup {NoSuchSong}) : play(song)
    /\ UNCHANGED <<fsVars, ready, queueVars, syncVars, diffVars, ffmpegVars, extVars,
                   g_autoplay_enabled, skipWait, autoWait, suppressions>>

\* /stop and the Stop button: autoplay off, stop what plays, reply, queue a refresh
StopCommand ==
    /\ LoopFree /\ cmds < MaxCommands
    /\ cmds' = cmds + 1
    /\ g_autoplay_enabled' = FALSE
    /\ IF vcPlaying
       THEN ManualStop
       ELSE UNCHANGED <<g_manual_stop, flagSets, vcPlaying, afterDue>>
    /\ queue' = QueuePut(queue, RefreshStatus)
    /\ enqLog' = Append(enqLog, RefreshStatus)
    /\ UNCHANGED <<fsVars, ready, queueReady, batch, procPc, syncVars, diffVars, ffmpegVars, extVars,
                   g_currently_playing_info, loopCalls, plays, skipWait, autoWait, suppressions>>

\* /skip and the Skip button up to the reply: with nothing playing the handler only
\* replies
SkipCommand ==
    /\ LoopFree /\ cmds < MaxCommands
    /\ vcPlaying
    /\ cmds' = cmds + 1
    /\ ManualStop
    /\ skipWait' = skipWait + 1
    /\ UNCHANGED <<fsVars, ready, queueVars, syncVars, diffVars, ffmpegVars, extVars, g_currently_playing_info,
                   loopCalls, plays, g_autoplay_enabled, autoWait, suppressions>>

\* the skip handler after its reply: play_next_song if autoplay is on
SkipResumes ==
    /\ LoopFree /\ skipWait > 0
    /\ skipWait' = skipWait - 1
    /\ IF g_autoplay_enabled
       THEN play_next_song(loopCalls, queue, enqLog)
       ELSE UNCHANGED <<g_manual_stop, suppressions, loopCalls, queue, enqLog,
                        g_currently_playing_info, vcPlaying, g_autoplay_enabled>>
    /\ UNCHANGED <<fsVars, ready, queueReady, batch, procPc, syncVars, diffVars, ffmpegVars, extVars,
                   afterDue, plays, cmds, autoWait, flagSets>>

\* /autoplay and the Autoplay button up to the reply: toggle the setting
AutoplayCommand ==
    /\ LoopFree /\ cmds < MaxCommands
    /\ cmds' = cmds + 1
    /\ g_autoplay_enabled' = ~g_autoplay_enabled
    /\ autoWait' = autoWait + 1
    /\ UNCHANGED <<sysVars, diffVars, ffmpegVars, extVars, skipWait, flagSets, suppressions>>

\* the autoplay handler after its reply: play_next_song if autoplay is on and
\* nothing plays, and a status refresh on the queue
AutoplayResumes ==
    /\ LoopFree /\ autoWait > 0
    /\ autoWait' = autoWait - 1
    /\ IF g_autoplay_enabled /\ ~vcPlaying
       THEN play_next_song(loopCalls, QueuePut(queue, RefreshStatus), Append(enqLog, RefreshStatus))
       ELSE /\ queue' = QueuePut(queue, RefreshStatus)
            /\ enqLog' = Append(enqLog, RefreshStatus)
            /\ UNCHANGED <<g_manual_stop, suppressions, loopCalls,
                           g_currently_playing_info, vcPlaying, g_autoplay_enabled>>
    /\ UNCHANGED <<fsVars, ready, queueReady, batch, procPc, syncVars, diffVars, ffmpegVars, extVars,
                   afterDue, plays, cmds, skipWait, flagSets>>

\* on_ready has run and no sync is under way
PlayInit ==
    /\ FfmpegOff /\ sp = TRUE /\ ExtOff
    /\ songs \in SysLibraries /\ temp = Gone
    /\ ready = TRUE /\ queueReady = TRUE
    /\ queue = <<>> /\ batch = <<>> /\ procPc = "sleep" /\ enqLog = <<>>
    /\ syncs = [s \in SyncIds |-> IdleSync]
    /\ g_spotify_tracks = <<>> /\ g_last_sync_time = 0
    /\ g_currently_playing_info = NoInfo /\ g_manual_stop = FALSE
    /\ vcPlaying = FALSE /\ afterDue = 0 /\ loopCalls = <<>> /\ plays = 0
    /\ cmds = 0 /\ skipWait = 0 /\ autoWait = 0 /\ flagSets = 0 /\ suppressions = 0
    /\ g_autoplay_enabled \in BOOLEAN
    /\ DiffOff

PlayNext ==
    \/ PlayCommand
    \/ StopCommand
    \/ SkipCommand
    \/ SkipResumes
    \/ AutoplayCommand
    \/ AutoplayResumes
    \/ PlayerEnds
    \/ PlayNextSong
    \/ LoopPut
    \/ ProcDrain
    \/ ProcExec
    \/ ProcResume
    \/ ProcCatch

PlaySpec == PlayInit /\ [][PlayNext]_vars

----------------------------------------------------------------------------
(* Claims about the edit queue and the sync, checked under Spec *)

\* the edits taken off the queue or still on it, oldest first as the consumer sees them
Pending == batch \o queue

\* the consumer starts the edit at the head of its batch in this step
Starts(e) == procPc = "run" /\ batch # <<>> /\ Head(batch) = e /\ batch' = Tail(batch)

\* sync s's _swap_dirs runs in this step: started by the consumer, or run at once
\* by enqueue_edit while there is no queue
SwapRuns(s) ==
    \/ Starts(SwapDirectories(s))
    \/ ~queueReady /\ syncs[s].pc # "done" /\ syncs'[s].outcome = "queued"

\* sync s has staged and its swap has not run yet
InFlight(s) == syncs[s].pc = "downloading" \/ SwapDirectories(s) \in Range(Pending)

\* C1: queued edits are executed in the order they were enqueued: the edit the
\* consumer starts is always the oldest edit enqueued and not yet started, and no
\* edit starts while the one before it is still awaited
C1_FifoExecution ==
    [][/\ \A e \in Range(batch) : Starts(e) => enqLog # <<>> /\ Head(enqLog) = e
       /\ procPc = "await" => batch' = batch]_vars

\* C1 witness: the consumer is inside a batch of different edits while edits of a
\* later drain already wait on the queue
C1_Witness ==
    /\ procPc = "run" /\ Len(batch) >= 2 /\ batch[1] # batch[2]
    /\ queue # <<>>

\* C2: a sync's SwapDirectories never executes while g_currently_playing_info is
\* non-empty
C2_NoSwapWhilePlaying ==
    [][\A s \in SyncIds : SwapRuns(s) => g_currently_playing_info = NoInfo]_vars

\* C3: every SwapDirectories that removes the live songs directory also moves a
\* staging directory into its place
C3_NeverHalfSwapped ==
    [][\A s \in SyncIds : (SwapRuns(s) /\ songs.exists) => songs'.exists]_vars

\* C4: at most one sync is in flight, and a sync requested while another one is in
\* flight is postponed and leaves the staging directory alone
C4_AtMostOneSyncInFlight ==
    [][/\ Cardinality({s \in SyncIds : InFlight(s)}') <= 1
       /\ \A s \in SyncIds :
            (/\ syncs[s].pc = "idle" /\ syncs'[s].pc # "idle"
             /\ \E t \in SyncIds : InFlight(t))
            => syncs'[s] = DoneSync("postponed") /\ temp' = temp]_vars

IsFsEdit(e, s) == e.sync = s /\ e.op \in {"Delete", "Rename"}

\* every Delete and Rename of sync s that is pending comes before s's swap
SwapIsLast(s) ==
    \A i, j \in 1..Len(Pending) :
        (Pending[i] = SwapDirectories(s) /\ IsFsEdit(Pending[j], s)) => j < i

\* C5: within one sync every Delete and Rename is enqueued before the sync's
\* SwapDirectories, which is the last filesystem action the sync issues, and all of
\* them have executed when the swap executes
C5_SwapAfterDeletesAndRenames ==
    [][\A s \in SyncIds :
        /\ SwapIsLast(s)'
        /\ SwapRuns(s) =>
            /\ \A k \in 2..Len(Pending) : ~IsFsEdit(Pending[k], s)
            /\ syncs'[s].pc = "done" /\ syncs'[s].pending = {}]_vars

\* C5 witness: a sync's swap is about to run on a staging directory where that
\* sync's Delete (of "1 - c.mp3") and Rename ("2 - a.mp3" to "1 - a.mp3") have run
C5_Witness ==
    /\ procPc = "run" /\ batch # <<>> /\ Head(batch).op = "SwapDirectories"
    /\ g_spotify_tracks = <<TitleA>>
    /\ temp.exists
    /\ Encode(1, TitleA) \in temp.files
    /\ Encode(2, TitleA) \notin temp.files
    /\ Encode(1, TitleC) \notin temp.files

\* C6: a sync requested while g_currently_playing_info is non-empty is postponed:
\* no staging directory, no edit, no download, the track cache and the last-sync
\* time unchanged
C6_PostponedSyncChangesNothing ==
    [][\A s \in SyncIds :
        (syncs[s].pc = "idle" /\ syncs'[s].pc # "idle" /\ g_currently_playing_info # NoInfo)
        => /\ syncs'[s] = DoneSync("postponed")
           /\ UNCHANGED <<songs, temp, queue, batch, g_spotify_tracks, g_last_sync_time>>]_vars

\* C6 witness: a sync was postponed while a file is playing
C6_Witness ==
    /\ g_currently_playing_info # NoInfo
    /\ \E s \in SyncIds : syncs[s] = DoneSync("postponed")

----------------------------------------------------------------------------
(* Claims about the reconciliation, checked under DiffSpec *)

Downloads == {k \in 1..Len(dIssued) : dIssued[k].op = "Download"}

IssuedOps(op) == {dIssued[k] : k \in {j \in 1..Len(dIssued) : dIssued[j].op = op}}

\* C7: once all actions of one sync are applied in their issued order, the staging
\* directory holds exactly the ideal filename set
C7_AppliedIsIdeal == dPhase = "applied" => dDir = IdealSet(dTracks)

\* a track with a unique title whose file is staged under another position only
Moved(i, f) ==
    /\ HasTrack(dTracks, i)
    /\ ContentName(dTracks[i]) \notin duplicate_content_names(dTracks)
    /\ f \in dStaged
    /\ SplitTail(f) = ContentName(dTracks[i])
    /\ f # Encode(i, dTracks[i])
    /\ Encode(i, dTracks[i]) \notin dStaged

\* C8: a moved track gets a Rename from the old name to the new one, and neither a
\* Delete nor a Download
C8_MovedTrackIsOnlyRenamed ==
    dPhase # "input" =>
        \A i \in 1..Len(dTracks) : \A f \in dStaged :
            Moved(i, f) =>
                /\ Rename(f, Encode(i, dTracks[i]), 1) \in IssuedOps("Rename")
                /\ Delete(f, 1) \notin IssuedOps("Delete")
                /\ Download(Encode(i, dTracks[i]), 1) \notin IssuedOps("Download")

\* C9: the number of Download actions equals the number of ideal filenames absent
\* from the staged listing
C9_DownloadsAreTheMissing ==
    dPhase # "input" => Cardinality(Downloads) = Cardinality(IdealSet(dTracks) \ dStaged)

\* C9 witness: a sync issued a download while another ideal file was already staged
C9_Witness ==
    /\ dPhase = "issued"
    /\ Downloads # {}
    /\ IdealSet(dTracks) \cap dStaged # {}

\* C10: a staged listing equal to the ideal set yields no Rename, Delete or
\* Download, and every Rename issued joins a staged file to an ideal filename of
\* the same content-key and a different name
C10_IdempotentResync ==
    dPhase # "input" =>
        /\ dStaged = IdealSet(dTracks) => dIssued = <<SwapDirectories(1)>>
        /\ \A e \in IssuedOps("Rename") :
            /\ e.src \in dStaged /\ e.dst \in IdealSet(dTracks)
            /\ SplitTail(e.src) = SplitTail(e.dst)
            /\ e.src # e.dst

\* C10 witness: a sync ran its diff on a non-empty library already in the ideal state
C10_Witness ==
    /\ dPhase = "issued"
    /\ dStaged # {}
    /\ dStaged = IdealSet(dTracks)

\* the content-key of f is shared by two or more playlist tracks
Collides(f) == HasSep(f) /\ SplitTail(f) \in duplicate_content_names(dTracks)

\* C11: no Rename names a source or a destination whose content-key is shared by
\* two or more playlist tracks; a file with such a content-key is only deleted when
\* its name is not an ideal filename, and only downloaded under an ideal filename
\* that is not staged
C11_NoRenameOnCollision ==
    dPhase # "input" =>
        /\ \A e \in IssuedOps("Rename") : ~Collides(e.src) /\ ~Collides(e.dst)
        /\ \A e \in IssuedOps("Delete") : Collides(e.src) => e.src \notin IdealSet(dTracks)
        /\ \A e \in IssuedOps("Download") :
              Collides(e.dst) => e.dst \in IdealSet(dTracks) \ dStaged

\* C11 witness: two tracks share a content-key; one file of that key is staged under
\* its ideal name and is kept, another is staged under a stale position and is
\* deleted, and the missing ideal file is downloaded
C11_Witness ==
    /\ dPhase = "issued"
    /\ duplicate_content_names(dTracks) # {}
    /\ \E f \in dStaged : Collides(f) /\ f \in IdealSet(dTracks)
    /\ \E e \in IssuedOps("Delete") : Collides(e.src)
    /\ \E e \in IssuedOps("Download") : Collides(e.dst)

RenameDestinations == {e.dst : e \in IssuedOps("Rename")}

DownloadTargets == {e.dst : e \in IssuedOps("Download")}

\* C12: the Rename destinations and the Download targets of one sync are disjoint
C12_RenameAndDownloadDisjoint ==
    dPhase # "input" => RenameDestinations \cap DownloadTargets = {}

----------------------------------------------------------------------------
(* Claims about playback, checked under PlaySpec *)

\* no player runs, no callback or handler is still to run
PlaybackOver ==
    /\ ~vcPlaying /\ afterDue = 0
    /\ loopCalls = <<>> /\ skipWait = 0 /\ autoWait = 0

\* C13: g_currently_playing_info is set while a track plays and is empty once
\* playback has ended and no new track was started
C13_RecordFollowsPlayback ==
    /\ (vcPlaying /\ loopCalls = <<>>) => g_currently_playing_info # NoInfo
    /\ PlaybackOver => g_currently_playing_info = NoInfo

\* C14: every setting of g_manual_stop by a user action suppresses exactly one
\* play_next_song: the settings not yet matched by a suppression are one while the
\* flag is up and none while it is down
C14_OneSuppressionPerStop ==
    flagSets - suppressions = (IF g_manual_stop THEN 1 ELSE 0)

----------------------------------------------------------------------------
\* Claims checked under Spec: failures

\* C17: when a queued edit raises during a drain, the consumer's except clause
\* leaves the rest of the batch as it was and hands control to its next item
\* (or, if the batch is finished, to the sleep before the next drain); while the
\* consumer runs a batch, the only edit it starts is the head of what is left
C17_RaiseSkipsNothing ==
    [][/\ procPc = "except" =>
            /\ batch' = batch
            /\ procPc' \in {"except", Continue(batch)}
       /\ (procPc = "run" /\ procPc' = "except") => batch' = Tail(batch)
       /\ (procPc = "await" /\ procPc' = "except") => batch' = batch]_vars

\* an edit has raised while other edits of its batch are still to run
C17_Witness == procPc = "except" /\ Len(batch) >= 2

----------------------------------------------------------------------------
(* The edit queue with a consumer that keeps being scheduled: the scheduled syncs
   produce the edits, the consumer task is resumed whenever it can go on *)

QueueNext ==
    \/ OnReady
    \/ ScheduledSync
    \/ DownloadRuns
    \/ DownloadsDone
    \/ ProcDrain
    \/ ProcExec
    \/ ProcResume
    \/ ProcCatch

\* asyncio resumes the consumer after its sleep and after each await it makes
ConsumerScheduled ==
    /\ WF_vars(ProcDrain)
    /\ WF_vars(ProcExec)
    /\ WF_vars(ProcResume)
    /\ WF_vars(ProcCatch)

QueueSpec == Init /\ [][QueueNext]_vars /\ ConsumerScheduled

\* C15: every edit put on the queue is consumed exactly once: the edits enqueued
\* and not yet started are at all times exactly those waiting in the queue or in
\* the drained batch, in order (none lost, none started twice, whether or not an
\* item before them raised), and whatever waits on the queue is eventually
\* drained and whatever is in a batch is eventually run
C15_ConsumedExactlyOnce ==
    /\ [](enqLog = Pending)
    /\ (queue # <<>>) ~> (queue = <<>>)
    /\ (batch # <<>>) ~> (batch = <<>>)

\* every sync has queued its edits and the consumer has run them all
C15_Witness == procPc = "sleep" /\ g_last_sync_time = MaxSyncs /\ Pending = <<>> /\ enqLog = <<>>

\* a worker thread runs one of a sync's downloads
DownloadExecutes ==
    \E s \in SyncIds : syncs[s].pc = "downloading" /\ syncs'[s].pending # syncs[s].pending

\* the consumer runs the item at the head of its drained batch
ConsumerRuns == procPc = "run" /\ batch # <<>> /\ batch' = Tail(batch)

\* C16: no action produced by a sync executes outside the edit queue: a step in
\* which a Download runs, or in which the live library changes (which only a
\* SwapDirectories does), is a step of the consumer running a dequeued item
C16_ActionsRunOnlyInConsumer == [][(DownloadExecutes \/ songs' # songs) => ConsumerRuns]_vars

\* the sync returns from its wait for the downloads
GatherReturns(s) == syncs[s].pc = "downloading" /\ syncs'[s].pc = "done"

\* the downloads of s that returned True
Succeeded(s) == {f \in DOMAIN syncs[s].results : syncs[s].results[f] = "ok"}

\* C18: failed downloads do not abort a sync: when a sync stops waiting for its
\* downloads every one it submitted has run, whatever the others returned or
\* raised; the sync then finishes with its summary, having put its
\* SwapDirectories and the status refresh on the queue, and the count the
\* summary reports is the number of downloads that returned True
C18_FailedDownloadsDoNotAbort ==
    [][\A s \in SyncIds : GatherReturns(s) =>
            /\ DOMAIN syncs[s].results = syncs[s].submitted
            /\ syncs'[s].outcome = "queued"
            /\ queueReady => queue' = queue \o <<SwapDirectories(s), RefreshStatus>>
            /\ syncs'[s].downloaded = Cardinality(Succeeded(s))]_vars

\* a sync whose two downloads have run: one failed or raised, the other succeeded
C18_Witness ==
    \E s \in SyncIds :
        /\ syncs[s].pc = "downloading" /\ syncs[s].pending = {}
        /\ Cardinality(syncs[s].submitted) = 2
        /\ Cardinality(Succeeded(s)) = 1
        /\ \E f \in syncs[s].submitted : syncs[s].results[f] = "raised"

\* sync s ended in the except clause of sync_playlist
Aborted(s) == syncs[s].pc = "done" /\ syncs[s].outcome \in {"error", "unreachable"}

----------------------------------------------------------------------------
(* ffmpeg_normalize_and_trim on one file: the file, the two temporary files and
   the exit codes of the ffmpeg runs *)

Partial == <<"partial">>

Stale == <<"stale">>

\* what input_path can hold when the function is called: nothing, or a download
Originals == {NoFile, <<"a">>, <<"b">>}

\* the output of an ffmpeg run that exited zero
Processed(filter, content) == <<filter>> \o content

\* ffmpeg cannot exit zero without its input
ExitCodes(content) == IF content = NoFile THEN 1..MaxExitCode ELSE 0..MaxExitCode

\* what the output path holds after a run: the output, or, after a failed run,
\* what it held before or a truncated output
Outputs(returncode, filter, content, old) ==
    IF returncode = 0 THEN {Processed(filter, content)} ELSE {old, Partial}

\* a function that never takes the fallback
NeverFallback(returncode) == FALSE

\* line 156: if res.returncode != 0
NeedsFallback(returncode) == returncode # 0

\* os.replace(src, input_path), return True; a missing src raises into the
\* except clause (lines 179-181)
ReplaceAndReturn(src) ==
    IF src = NoFile
    THEN returned' = <<FALSE>> /\ UNCHANGED inputFile
    ELSE returned' = <<TRUE>> /\ inputFile' = src

\* subprocess.run raised: return False from the except clause
RunRaises ==
    /\ returned' = <<FALSE>> /\ ffPc' = "returned"
    /\ UNCHANGED <<inputFile, tmpFile, tmpFile2, res, res2>>

\* lines 144-155: the trim and normalize run
FfmpegRun ==
    /\ ffPc = "called"
    /\ \/ RunRaises
       \/ \E rc \in ExitCodes(inputFile) :
          \E out \in Outputs(rc, "trim+loudnorm", inputFile, tmpFile) :
            /\ res' = <<rc>> /\ tmpFile' = out /\ ffPc' = "ran"
            /\ UNCHANGED <<inputFile, tmpFile2, res2, returned>>
    /\ UNCHANGED <<sysVars, diffVars, ctlVars, extVars, original>>

\* lines 156-168 (the fallback run) or 175-178 (replace and return)
FfmpegBranch ==
    /\ ffPc = "ran"
    /\ IF NeedsFallback(res[1])
       THEN \/ RunRaises
            \/ \E rc \in ExitCodes(inputFile) :
               \E out \in Outputs(rc, "loudnorm", inputFile, tmpFile2) :
                 /\ res2' = <<rc>> /\ tmpFile2' = out /\ ffPc' = "fallback"
                 /\ UNCHANGED <<inputFile, tmpFile, res, returned>>
       ELSE /\ ReplaceAndReturn(tmpFile)
            /\ tmpFile' = IF returned' = <<TRUE>> THEN NoFile ELSE tmpFile
            /\ ffPc' = "returned"
            /\ UNCHANGED <<tmpFile2, res, res2>>
    /\ UNCHANGED <<sysVars, diffVars, ctlVars, extVars, original>>

\* lines 169-174
FfmpegFallbackEnds ==
    /\ ffPc = "fallback"
    /\ IF res2[1] = 0
       THEN /\ ReplaceAndReturn(tmpFile2)
            /\ tmpFile2' = IF returned' = <<TRUE>> THEN NoFile ELSE tmpFile2
       ELSE /\ returned' = <<FALSE>>
            /\ UNCHANGED <<inputFile, tmpFile2>>
    /\ ffPc' = "returned"
    /\ UNCHANGED <<sysVars, diffVars, ctlVars, extVars, original, tmpFile, res, res2>>

\* the function is called on a file; the temporary paths may hold leftovers
FfmpegInit ==
    /\ songs = Gone /\ SysInit /\ DiffOff /\ g_autoplay_enabled = FALSE /\ sp = TRUE /\ ExtOff
    /\ original \in Originals /\ inputFile = original
    /\ tmpFile \in {NoFile, Stale} /\ tmpFile2 \in {NoFile, Stale}
    /\ res = <<>> /\ res2 = <<>> /\ returned = <<>> /\ ffPc = "called"

FfmpegNext == FfmpegRun \/ FfmpegBranch \/ FfmpegFallbackEnds

FfmpegSpec == FfmpegInit /\ [][FfmpegNext]_vars

\* C19: ffmpeg_normalize_and_trim runs the fallback only after the first run, and
\* only if that run exited nonzero; once it has returned, it has returned True
\* exactly if one of the two runs exited zero, the file then holds the output of
\* that run, and otherwise (both failed, or a run could not be started) it has
\* returned False and the file holds what it held at the call
C19_ReplacesExactlyOnSuccess ==
    /\ res2 # <<>> => (res # <<>> /\ res # <<0>>)
    /\ ffPc = "fallback" => res2 # <<>>
    /\ ffPc = "returned" =>
        /\ returned = <<(res = <<0>> \/ res2 = <<0>>)>>
        /\ res = <<0>> => inputFile = Processed("trim+loudnorm", original)
        /\ res2 = <<0>> => inputFile = Processed("loudnorm", original)
        /\ returned = <<FALSE>> => inputFile = original

\* the first run failed, the fallback exited zero and its output replaced the file
C19_Witness ==
    /\ ffPc = "returned" /\ res # <<>> /\ res # <<0>> /\ res2 = <<0>>
    /\ returned = <<TRUE>> /\ inputFile = Processed("loudnorm", original)

\* sync s returns in this step because the playlist could not be read: sp is None,
\* or fetching a page raised
Unreachable(s) == syncs[s].pc # "done" /\ syncs'[s].outcome \in {"down", "unreachable"}

\* C21: when the Spotify client is absent or fetching a page of the playlist
\* fails, the sync is skipped entirely: the step in which it returns leaves the
\* staging directory and the live library as they were (nothing made, nothing
\* removed), puts nothing on the queue and runs no edit, leaves the sync without
\* any download, and leaves g_spotify_tracks and the sync time as they were
C21_UnreachableSourceSkipsSync ==
    [][\A s \in SyncIds : Unreachable(s) =>
            /\ temp' = temp /\ songs' = songs
            /\ queue' = queue /\ enqLog' = enqLog /\ batch' = batch
            /\ syncs'[s].pending = {} /\ syncs'[s].submitted = {}
            /\ g_spotify_tracks' = g_spotify_tracks
            /\ g_last_sync_time' = g_last_sync_time]_vars

\* a fetch has failed while the staging directory of the sync before it still
\* exists and g_spotify_tracks holds that sync's playlist
C21_Witness ==
    /\ syncs[2].pc = "done" /\ syncs[2].outcome = "unreachable"
    /\ temp.exists /\ g_spotify_tracks # <<>>

----------------------------------------------------------------------------
(* on_ready, as often as the gateway sends READY: each event starts a handler,
   the handlers interleave at their awaits, the consumer runs once started *)

\* a loop whose start() can be called again while its task runs
StartNeverRaises(running) == FALSE

\* tasks.Loop.start raises RuntimeError while the loop's task is running;
\* refresh_seek_bar runs from its first start on
StartRaises(running) == running

\* lines 966-977: the event is dispatched; edit_queue is made if it is None; the
\* handler awaits bot.tree.sync()
OnReadyFires(e) ==
    /\ LoopFree
    /\ onReady[e] = "none"
    /\ IF e = 1 THEN TRUE ELSE onReady[e - 1] # "none"
    /\ onReady' = [onReady EXCEPT ![e] = "tree_sync"]
    /\ queueReady' = TRUE
    /\ queuesMade' = IF queueReady THEN queuesMade ELSE queuesMade + 1
    /\ queue' = IF queueReady THEN queue ELSE <<>>
    /\ UNCHANGED <<fsVars, ready, batch, procPc, enqLog, syncVars, playVars,
                   diffVars, ctlVars, ffmpegVars, moreVars, sp, codecVars, historyVars, processors>>

\* lines 977-1000: bot.tree.sync() returns or raises; then the status message is
\* fetched or sent, which can raise, and the first refresh is enqueued
OnReadySyncs(e) ==
    /\ LoopFree
    /\ onReady[e] = "tree_sync"
    /\ \E raises \in BOOLEAN :
         onReady' = [onReady EXCEPT ![e] = IF raises THEN "failed" ELSE "status"]
    /\ UNCHANGED <<fsVars, ready, queueVars, syncVars, playVars,
                   diffVars, ctlVars, ffmpegVars, moreVars, sp, codecVars, historyVars, processors, queuesMade>>

\* lines 980-1009: with a status channel the refresh is enqueued; the handler then
\* awaits general_vc.connect(), whose exceptions it catches
OnReadyStatus(e) ==
    /\ LoopFree
    /\ onReady[e] = "status"
    /\ \/ /\ onReady' = [onReady EXCEPT ![e] = "failed"]
          /\ UNCHANGED <<queue, enqLog>>
       \/ \E has_channel \in BOOLEAN :
          /\ onReady' = [onReady EXCEPT ![e] = "connect"]
          /\ queue' = IF has_channel THEN QueuePut(queue, RefreshStatus) ELSE queue
          /\ enqLog' = IF has_channel THEN Append(enqLog, RefreshStatus) ELSE enqLog
    /\ UNCHANGED <<fsVars, ready, queueReady, batch, procPc, syncVars, playVars,
                   diffVars, ctlVars, ffmpegVars, moreVars, sp, codecVars, historyVars, processors, queuesMade>>

\* lines 1011-1017: refresh_seek_bar.start(), scheduled_sync.start(),
\* bot.loop.create_task(_edit_queue_processor())
OnReadyStarts(e) ==
    /\ LoopFree
    /\ onReady[e] = "connect"
    /\ IF StartRaises(ready)
       THEN /\ onReady' = [onReady EXCEPT ![e] = "start_raised"]
            /\ UNCHANGED <<ready, processors>>
       ELSE /\ onReady' = [onReady EXCEPT ![e] = "done"]
            /\ ready' = TRUE
            /\ processors' = processors + 1
    /\ UNCHANGED <<fsVars, queueVars, syncVars, playVars,
                   diffVars, ctlVars, ffmpegVars, moreVars, sp, codecVars, historyVars, queuesMade>>

ReadyInit ==
    /\ songs = Gone /\ SysInit /\ DiffOff /\ FfmpegOff
    /\ g_autoplay_enabled = FALSE /\ sp = TRUE /\ ReadyOff /\ CodecOff /\ HistoryOff /\ MoreOff

ReadyNext ==
    \/ \E e \in ReadyEvents : OnReadyFires(e)
    \/ \E e \in ReadyEvents : OnReadySyncs(e)
    \/ \E e \in ReadyEvents : OnReadyStatus(e)
    \/ \E e \in ReadyEvents : OnReadyStarts(e)
    \/ ProcDrain
    \/ ProcExec
    \/ ProcResume
    \/ ProcCatch

ReadySpec == ReadyInit /\ [][ReadyNext]_vars

\* C22: there is never more than one edit-queue consumer task, and once an
\* on_ready handler has run to its end there is exactly one; no on_ready event
\* after the first makes a second consumer or a second queue: once edit_queue
\* is set it stays the same object and keeps the edits waiting on it
C22_SingleConsumer ==
    /\ [](/\ processors <= 1
          /\ queuesMade <= 1
          /\ (\E e \in ReadyEvents : onReady[e] = "done") => processors = 1)
    /\ [][queueReady => /\ queueReady' /\ queuesMade' = queuesMade
                        /\ Len(batch') + Len(queue') >= Len(batch) + Len(queue) - 1]_vars

\* a second on_ready handler has reached the start of the background tasks after
\* the first one finished, while an edit waits on the queue
C22_Witness ==
    /\ onReady[1] = "done" /\ onReady[2] = "start_raised"
    /\ processors = 1 /\ queue # <<>>

----------------------------------------------------------------------------
(* Claims about playback and threads, checked under PlaySpec *)

\* the audio thread runs _after
CallbackRuns == loopCalls' = after(loopCalls)

\* C23: the playback-completion callback changes no shared state itself: the step
\* in which the audio thread runs it only submits play_next_song to the loop and
\* leaves the currently-playing record, the manual-stop flag, the autoplay flag
\* and the edit queue as they were; and every step that changes one of these is
\* taken by the event loop, between two handlers, never while the consumer is
\* inside a batch
C23_CallbackOnlySubmits ==
    [][/\ CallbackRuns =>
            /\ g_currently_playing_info' = g_currently_playing_info
            /\ g_manual_stop' = g_manual_stop
            /\ g_autoplay_enabled' = g_autoplay_enabled
            /\ queue' = queue /\ enqLog' = enqLog /\ batch' = batch
       /\ (\/ g_currently_playing_info' # g_currently_playing_info
           \/ g_manual_stop' # g_manual_stop
           \/ g_autoplay_enabled' # g_autoplay_enabled
           \/ queue' # queue) => LoopFree]_vars

\* a track has ended while the consumer is inside a batch: the callback has
\* submitted play_next_song, the record still names the track
C23_Witness ==
    /\ loopCalls # <<>> /\ Head(loopCalls) = "play_next"
    /\ ~vcPlaying /\ g_currently_playing_info # NoInfo /\ procPc = "run"

----------------------------------------------------------------------------
(* The filename codec on its own: a title and a position are encoded as the sync
   names the ideal file, and the name is read back as the sync reads the staging
   directory *)

\* the characters of the titles: a letter, the characters of the separator, one
\* that rstrip removes and one that the re.sub removes
TitleChars == {"a", " ", "-", ".", ":"}

Titles == UNION {[1..n -> TitleChars] : n \in 0..MaxTitleLen}

\* the title holds none of the characters sanitize_filename removes
IsPlainTitle(title) == \A i \in 1..Len(title) : IsPlain(title[i])

\* line 451: the ideal filename of the track
CodecEncode ==
    /\ cPc = "title"
    /\ cName' = Encode(cPos, cTitle)
    /\ cPc' = "encoded"
    /\ UNCHANGED <<sysVars, diffVars, ctlVars, ffmpegVars, moreVars, sp, readyVars, historyVars, cTitle, cPos, cKey>>

\* lines 465-468: f.split(' - ', 1)[1] for a listed f with ' - ' in it
CodecDecode ==
    /\ cPc = "encoded" /\ HasSep(cName)
    /\ cKey' = SplitTail(cName)
    /\ cPc' = "decoded"
    /\ UNCHANGED <<sysVars, diffVars, ctlVars, ffmpegVars, moreVars, sp, readyVars, historyVars, cTitle, cPos, cName>>

CodecInit ==
    /\ songs = Gone /\ SysInit /\ DiffOff /\ FfmpegOff /\ ReadyOff /\ HistoryOff /\ MoreOff
    /\ g_autoplay_enabled = FALSE /\ sp = TRUE
    /\ cTitle \in Titles /\ cPos \in 1..MaxPos
    /\ cName = <<>> /\ cKey = <<>> /\ cPc = "title"

CodecNext == CodecEncode \/ CodecDecode

CodecSpec == CodecInit /\ [][CodecNext]_vars

\* C24: round trip of the codec: for every position and every title without
\* path-hostile characters, the encoded name holds a " - " and the part after its
\* first " - " is exactly sanitize_filename(title) + ".mp3", also when the title
\* holds " - " itself
C24_CodecRoundTrip ==
    /\ (cPc = "encoded" /\ IsPlainTitle(cTitle)) => HasSep(cName)
    /\ (cPc = "decoded" /\ IsPlainTitle(cTitle)) => cKey = ContentName(cTitle)

\* a title that keeps a " - " after sanitizing has been encoded and read back
C24_Witness ==
    /\ cPc = "decoded" /\ IsPlainTitle(cTitle) /\ HasSep(sanitize_filename(cTitle))
    /\ cPos = MaxPos

----------------------------------------------------------------------------
(* Claims about duplicates and stale files, checked under DiffSpec *)

\* the content-keys that two or more tracks of the playlist share
SharedKeys ==
    {ContentName(dTracks[i]) : i \in {j \in 1..Len(dTracks) :
        /\ dTracks[j] # NoTrack
        /\ \E k \in 1..Len(dTracks) :
             k # j /\ dTracks[k] # NoTrack /\ ContentName(dTracks[k]) = ContentName(dTracks[j])}}

\* the ideal filenames of the tracks that share their content-key
IdealDuplicates == {n \in IdealSet(dTracks) : SplitTail(n) \in SharedKeys}

TimesIssued(e) == Cardinality({k \in 1..Len(dIssued) : dIssued[k] = e})

\* C25: for content-keys shared by two or more playlist tracks, a staged file
\* 'N - name' with such a key is queued for Delete exactly if its full filename
\* is not one of the ideal duplicate filenames; each ideal duplicate filename
\* that is not in the staging directory gets one Download of its own; and no
\* Rename takes a file with such a key or produces one
C25_DuplicatesByExactName ==
    dPhase # "input" =>
        /\ \A f \in dStaged : (HasSep(f) /\ SplitTail(f) \in SharedKeys) =>
                (TimesIssued(Delete(f, 1)) >= 1 <=> f \notin IdealDuplicates)
        /\ \A n \in IdealDuplicates : n \notin dStaged => TimesIssued(Download(n, 1)) = 1
        /\ \A e \in Range(dIssued) : e.op = "Rename" =>
                SplitTail(e.src) \notin SharedKeys /\ SplitTail(e.dst) \notin SharedKeys

\* the playlist [a, a] with an empty staging directory: a Download for each of
\* '1 - a.mp3' and '2 - a.mp3', then the swap
C25_Witness ==
    /\ dPhase = "issued" /\ dTracks = <<TitleA, TitleA>> /\ dStaged = {}
    /\ dIssued = <<Download(Encode(1, TitleA), 1), Download(Encode(2, TitleA), 1),
                   SwapDirectories(1)>>

\* the content-keys of the playlist's tracks
PlaylistKeys == {ContentName(dTracks[i]) : i \in {j \in 1..Len(dTracks) : dTracks[j] # NoTrack}}

\* C26: for content-keys that no two playlist tracks share, a staged file
\* 'N - name' is queued for Delete (once) exactly if its content-key is the key
\* of no playlist track; a staged file whose key is the key of some playlist
\* track is not queued for Delete, whatever its position prefix
C26_StaleFilesDeleted ==
    dPhase # "input" =>
        \A f \in dStaged : (HasSep(f) /\ SplitTail(f) \notin SharedKeys) =>
            TimesIssued(Delete(f, 1)) = (IF SplitTail(f) \in PlaylistKeys THEN 0 ELSE 1)

\* the playlist [a] with '2 - a.mp3' and '1 - b.mp3' staged: the second is queued
\* for Delete, the first is kept
C26_Witness ==
    /\ dPhase = "issued" /\ dTracks = <<TitleA>>
    /\ dStaged = {Encode(2, TitleA), Encode(1, TitleB)}
    /\ TimesIssued(Delete(Encode(1, TitleB), 1)) = 1
    /\ TimesIssued(Delete(Encode(2, TitleA), 1)) = 0

----------------------------------------------------------------------------
(* The autoplay selection on its own: lines 667-680 of play_next_song, over
   libraries smaller than, as large as and larger than the deque *)

\* deque(maxlen=20)
maxlen == 20

\* while attempts < 50
MaxAttempts == 50

\* len(set(song_list)) of the libraries followed
LibrarySizes == {1, 2, 3, maxlen, maxlen + 1}

\* the deque at the start: empty, one song, one short of full, full; songs in turn
HistoriesAtStart(n) ==
    {[i \in 1..k |-> ((i - 1) % n) + 1] : k \in {0, 1, maxlen - 1, maxlen}}

\* line 671: candidate not in g_recently_played or
\* len(set(song_list)) <= len(g_recently_played)
Accepts(candidate, recent, library) ==
    candidate \notin Range(recent) \/ Cardinality(library) <= Len(recent)

\* g_recently_played.append(x) on a deque with maxlen
deque_append(recent, x) ==
    IF Len(recent) = maxlen THEN Tail(recent) \o <<x>> ELSE Append(recent, x)

\* found_song_filename (hFound) is set; line 680 appends it; the next call starts at 0 attempts
Found(song) ==
    /\ hFound' = song
    /\ g_recently_played' = deque_append(g_recently_played, song)
    /\ hPicks' = hPicks + 1
    /\ attempts' = 0

\* one turn of the loop at lines 669-674
HistoryTry ==
    /\ hPicks < MaxPicks /\ attempts < MaxAttempts
    /\ \E candidate \in hSongs :
        IF Accepts(candidate, g_recently_played, hSongs)
        THEN Found(candidate)
        ELSE /\ attempts' = attempts + 1
             /\ UNCHANGED <<g_recently_played, hFound, hPicks>>
    /\ UNCHANGED <<sysVars, diffVars, ctlVars, ffmpegVars, moreVars, sp, readyVars, codecVars, hSongs>>

\* lines 676-677: the loop ran out, any song is taken
HistoryFallback ==
    /\ hPicks < MaxPicks /\ attempts = MaxAttempts
    /\ \E candidate \in hSongs : Found(candidate)
    /\ UNCHANGED <<sysVars, diffVars, ctlVars, ffmpegVars, moreVars, sp, readyVars, codecVars, hSongs>>

HistoryInit ==
    /\ songs = Gone /\ SysInit /\ DiffOff /\ FfmpegOff /\ ReadyOff /\ CodecOff /\ MoreOff
    /\ g_autoplay_enabled = FALSE /\ sp = TRUE
    /\ \E n \in LibrarySizes :
        /\ hSongs = 1..n
        /\ g_recently_played \in HistoriesAtStart(n)
    /\ attempts = 0 /\ hFound = 0 /\ hPicks = 0

HistoryNext == HistoryTry \/ HistoryFallback

HistorySpec == HistoryInit /\ [][HistoryNext]_vars

\* the loop turned a candidate down
Rejected == attempts' = attempts + 1

\* the loop took a candidate before it ran out of attempts
AcceptedInLoop == hPicks' = hPicks + 1 /\ attempts < MaxAttempts

\* C27: with a library of at least maxlen songs a candidate taken within the
\* retries is not in the history; with a library of fewer than maxlen songs no
\* candidate is turned down for being in the history; and the history never
\* holds more than maxlen entries, the oldest leaving first
C27_HistoryBiasesSelection ==
    [][/\ (AcceptedInLoop /\ Cardinality(hSongs) >= maxlen) =>
            hFound' \notin Range(g_recently_played)
       /\ Cardinality(hSongs) < maxlen => ~Rejected
       /\ Len(g_recently_played') <= maxlen
       /\ hPicks' = hPicks + 1 =>
            g_recently_played' = (IF Len(g_recently_played) = maxlen
                                  THEN Tail(g_recently_played)
                                  ELSE g_recently_played) \o <<hFound'>>]_vars

----------------------------------------------------------------------------
(* The status message on its own: update_status_message as the consumer runs
   it, one call at a time, with time passing while it awaits; the message can be
   deleted in the channel by anyone, and on_ready can run again *)

\* ticks of the clock in a second
TicksPerSecond == 2

\* the clock is followed up to this tick
MaxClock == 6

\* status messages ever sent to the channel
MaxMessages == 2

\* time passes, also while a refresh awaits
ClockTicks ==
    /\ stPc # "off" /\ clock < MaxClock
    /\ clock' = clock + 1
    /\ UNCHANGED <<sysVars, diffVars, ctlVars, ffmpegVars, sp, readyVars, codecVars,
                   historyVars, persistVars, g_last_edit_time, g_status_message, channelMessages,
                   statusFile, editTimes, stRuns, stPc>>

\* lines 285-292: the two guards and the stamp, up to the await of change_presence
UpdateStatusMessage ==
    /\ stPc = "idle"
    /\ stRuns' = (stRuns + 1) % 2
    /\ IF g_status_message = 0
       THEN UNCHANGED <<g_last_edit_time, stPc>>
       ELSE IF clock - g_last_edit_time < TicksPerSecond
            THEN UNCHANGED <<g_last_edit_time, stPc>>
            ELSE g_last_edit_time' = clock /\ stPc' = "presence"
    /\ UNCHANGED <<sysVars, diffVars, ctlVars, ffmpegVars, sp, readyVars, codecVars,
                   historyVars, persistVars, clock, g_status_message, channelMessages, statusFile,
                   editTimes>>

\* lines 356-362: the edit is made, or reports NotFound and the message is
\* let go of, or fails otherwise and is logged
UpdateStatusEdits ==
    /\ stPc = "presence"
    /\ stPc' = "idle"
    /\ IF g_status_message \in channelMessages
       THEN /\ \E made \in BOOLEAN :
                editTimes' = IF made THEN Append(editTimes, clock) ELSE editTimes
            /\ UNCHANGED g_status_message
       ELSE /\ g_status_message' = 0
            /\ UNCHANGED editTimes
    /\ UNCHANGED <<sysVars, diffVars, ctlVars, ffmpegVars, sp, readyVars, codecVars,
                   historyVars, persistVars, clock, g_last_edit_time, channelMessages, statusFile,
                   stRuns>>

\* somebody deletes the status message in the channel
MessageDeleted ==
    /\ stPc # "off" /\ statusFile \in channelMessages
    /\ channelMessages' = channelMessages \ {statusFile}
    /\ UNCHANGED <<sysVars, diffVars, ctlVars, ffmpegVars, sp, readyVars, codecVars,
                   historyVars, persistVars, clock, g_last_edit_time, g_status_message, statusFile,
                   editTimes, stRuns, stPc>>

\* lines 983-998: on_ready once more: the message of the id file is fetched, or
\* a new one is sent and its id written
OnReadyAgain ==
    /\ stPc = "idle"
    /\ IF statusFile \in channelMessages
       THEN g_status_message' = statusFile /\ UNCHANGED <<channelMessages, statusFile>>
       ELSE /\ statusFile < MaxMessages
            /\ g_status_message' = statusFile + 1
            /\ channelMessages' = channelMessages \cup {statusFile + 1}
            /\ statusFile' = statusFile + 1
    /\ UNCHANGED <<sysVars, diffVars, ctlVars, ffmpegVars, sp, readyVars, codecVars,
                   historyVars, persistVars, clock, g_last_edit_time, editTimes, stRuns, stPc>>

\* on_ready has sent the status message; time.time() is far from the 0 of line 62
StatusInit ==
    /\ songs = Gone /\ SysInit /\ DiffOff /\ FfmpegOff /\ ReadyOff /\ CodecOff /\ HistoryOff
    /\ PersistOff
    /\ g_autoplay_enabled = FALSE /\ sp = TRUE
    /\ clock = TicksPerSecond /\ g_last_edit_time = 0
    /\ g_status_message = 1 /\ channelMessages = {1} /\ statusFile = 1
    /\ editTimes = <<>> /\ stRuns = 0 /\ stPc = "idle"

StatusNext ==
    \/ ClockTicks
    \/ UpdateStatusMessage
    \/ UpdateStatusEdits
    \/ MessageDeleted
    \/ OnReadyAgain

\* refresh_seek_bar asks for a refresh every 15 seconds and the consumer runs
\* what it is handed; nothing makes on_ready run again
StatusSpec ==
    /\ StatusInit /\ [][StatusNext]_vars
    /\ WF_vars(ClockTicks) /\ WF_vars(UpdateStatusMessage) /\ WF_vars(UpdateStatusEdits)

\* C28: any two edits of the status message that were made are at least one
\* second apart
C28_EditsASecondApart ==
    \A i \in 1..(Len(editTimes) - 1) : editTimes[i + 1] - editTimes[i] >= TicksPerSecond

\* C29: once an edit has reported NotFound and the message was let go of, the
\* refreshes that follow come to hold a message that exists in the channel
C29_StatusMessageRecreated ==
    (stPc # "off" /\ g_status_message = 0) ~> (g_status_message \in channelMessages)

----------------------------------------------------------------------------
(* The autoplay-state record on its own: the handlers that change
   g_autoplay_enabled or the playing record, and what each writes to
   AUTOPLAY_STATE_FILE.  File writes succeed *)

\* _after callbacks that can be outstanding
MaxPending == 2

\* the songs directory is missing, is empty or holds songs
PersistLibraries == SysLibraries \cup {Dir({})}

\* what the handlers read and write, as one record
Now ==
    [g |-> g_autoplay_enabled, info |-> g_currently_playing_info,
     state |-> autoplay_state, file |-> stateFile,
     manual |-> g_manual_stop, playing |-> vcPlaying, after |-> afterDue]

\* the handler leaves w behind
Leaves(w) ==
    /\ g_autoplay_enabled' = w.g /\ g_currently_playing_info' = w.info
    /\ autoplay_state' = w.state /\ stateFile' = w.file
    /\ g_manual_stop' = w.manual /\ vcPlaying' = w.playing /\ afterDue' = w.after
    /\ UNCHANGED <<fsVars, ready, queueVars, syncVars, loopCalls, plays, diffVars,
                   cmds, skipWait, autoWait, flagSets, suppressions, ffmpegVars,
                   sp, readyVars, codecVars, historyVars, statusVars, connected, psPc>>

\* json.dump(autoplay_state, f)
Dumped(w) == [w EXCEPT !.file = w.state]

\* lines 369-376 of update_now_playing: the record, last_played, the file
NowPlaying(w, info) ==
    Dumped([w EXCEPT !.info = info, !.state.last_played = info])

\* g_autoplay_enabled and autoplay_state['autoplay_enabled'] are set together
FlagAndState(w, on) == [w EXCEPT !.g = on, !.state.autoplay_enabled = on]

\* voice_client.stop() on a player that plays: its _after is due
Stopped(w) == [w EXCEPT !.manual = TRUE, !.playing = FALSE, !.after = w.after + 1]

\* play_file, lines 714-738
PlayFile(w, song) ==
    IF ~connected THEN w
    ELSE IF ~(songs.exists /\ song \in songs.files) \/ w.playing
         THEN NowPlaying(NowPlaying(w, song), NoInfo)
         ELSE [NowPlaying(w, song) EXCEPT !.playing = TRUE]

\* play_next_song, lines 627-706, with the file random.choice gives
PlayNext_(w, song) ==
    IF w.manual THEN [w EXCEPT !.manual = FALSE]
    ELSE IF ~w.g THEN NowPlaying(w, NoInfo)
    ELSE IF ~connected THEN Dumped(FlagAndState(NowPlaying(w, NoInfo), FALSE))
    ELSE IF song_list = {} THEN FlagAndState(NowPlaying(w, NoInfo), FALSE)
    ELSE PlayFile(NowPlaying(w, NoInfo), song)

\* the songs random.choice can give; any value stands in when there is none
Picks == IF song_list = {} THEN {NoInfo} ELSE song_list

\* /autoplay, lines 823-838
autoplay ==
    /\ psPc = "on"
    /\ LET w == Dumped(FlagAndState(Now, ~g_autoplay_enabled))
       IN  IF w.g /\ ~(connected /\ w.playing)
           THEN \E song \in Picks : Leaves(PlayNext_(w, song))
           ELSE Leaves(w)

\* the Autoplay button, lines 248-271
autoplay_button ==
    /\ psPc = "on"
    /\ LET w == Dumped(FlagAndState(Now, ~g_autoplay_enabled))
       IN  IF w.g /\ connected /\ ~w.playing
           THEN \E song \in Picks : Leaves(PlayNext_(w, song))
           ELSE Leaves(w)

\* /stop, lines 842-857
stop ==
    /\ psPc = "on" /\ (vcPlaying => afterDue < MaxPending)
    /\ LET w == Dumped(FlagAndState(Now, FALSE))
       IN  Leaves(IF w.playing THEN Stopped(w) ELSE w)

\* the Stop button, lines 236-245
stop_button ==
    /\ psPc = "on" /\ (vcPlaying => afterDue < MaxPending)
    /\ LET w == [Now EXCEPT !.g = FALSE]
       IN  Leaves(IF w.playing THEN Stopped(w) ELSE w)

\* /play of a file of the library, lines 758-803
play_command ==
    /\ psPc = "on" /\ connected /\ (vcPlaying => afterDue < MaxPending)
    /\ \E song \in song_list :
        Leaves(PlayFile(IF vcPlaying THEN Stopped(Now) ELSE Now, song))

\* a player ends, by itself or stopped, and its _after has play_next_song run
after_play_next_song ==
    /\ psPc = "on"
    /\ \E natural \in {n \in BOOLEAN : IF n THEN vcPlaying ELSE afterDue > 0} :
        \E song \in Picks :
            Leaves(PlayNext_(IF natural THEN [Now EXCEPT !.playing = FALSE]
                                        ELSE [Now EXCEPT !.after = afterDue - 1], song))

\* what autoplay_state.json can hold at startup
StateRecords ==
    [last_played : {NoInfo, Encode(1, TitleC)}, autoplay_enabled : BOOLEAN]

\* lines 80-92: the record is loaded if the file is there; on_ready has run
PersistInit ==
    /\ SysInit /\ DiffOff /\ FfmpegOff /\ ReadyOff /\ CodecOff /\ HistoryOff /\ StatusOff
    /\ sp = TRUE
    /\ songs \in PersistLibraries
    /\ stateFile \in StateRecords \cup {<<>>}
    /\ autoplay_state = (IF stateFile = <<>> THEN DefaultState ELSE stateFile)
    /\ g_autoplay_enabled = autoplay_state.autoplay_enabled
    /\ connected \in BOOLEAN /\ psPc = "on"

PersistNext ==
    \/ autoplay
    \/ autoplay_button
    \/ stop
    \/ stop_button
    \/ play_command
    \/ after_play_next_song

PersistSpec == PersistInit /\ [][PersistNext]_vars

\* the file holds the flag and the path of what plays
FileMatches ==
    /\ stateFile # <<>>
    /\ stateFile.autoplay_enabled = g_autoplay_enabled
    /\ stateFile.last_played = g_currently_playing_info

\* a handler that assigns g_autoplay_enabled or the playing record has run:
\* all of them but a play_next_song that returns on the manual-stop flag
AssignsFlagOrPath ==
    \/ autoplay \/ autoplay_button \/ stop \/ stop_button \/ play_command
    \/ (after_play_next_song /\ ~g_manual_stop)

\* C30: after every handler that assigns g_autoplay_enabled or the playing
\* record, the autoplay-state file holds the value of the flag and the path of
\* what plays
C30_RecordRewrittenOnChange ==
    [][AssignsFlagOrPath => FileMatches']_vars

----------------------------------------------------------------------------
\* C31: while the voice client plays a track, g_currently_playing_info is not
\* empty
C31_PlayingHasInfo ==
    vcPlaying => g_currently_playing_info # NoInfo

----------------------------------------------------------------------------
\* int(found_song_filename.split(' - ')[0]), lines 684 and 778
song_number(f) == CHOOSE n \in 1..Len(Digits) : Digits[n] = f[1]

\* lines 685-686 and 779-780: g_spotify_tracks[song_number - 1]['track'] is
\* there, so the name shown is its name; an index out of range or an item
\* without a track leaves track_info None and the name comes from the filename
HasTrackInfo(f, tracks) ==
    song_number(f) <= Len(tracks) /\ tracks[song_number(f)] # NoTrack

\* /play or play_next_song starts a player
StartsTrack == vcPlaying' /\ (~vcPlaying \/ plays' # plays)

\* C32: when /play or play_next_song starts the file N - T.mp3 and takes the
\* name it shows from position N of g_spotify_tracks, the sanitized title of
\* that track is T
C32_MetadataIsOfTheFile ==
    [][(StartsTrack /\ HasTrackInfo(g_currently_playing_info', g_spotify_tracks)) =>
            Encode(song_number(g_currently_playing_info'),
                   g_spotify_tracks[song_number(g_currently_playing_info')])
                = g_currently_playing_info']_vars

----------------------------------------------------------------------------
\* the loop runs an edit_queue.put that enqueue_edit_threadsafe submitted
ThreadsafePutRuns ==
    loopCalls # <<>> /\ Head(loopCalls) = "put_status" /\ loopCalls' = Tail(loopCalls)

\* a handler's await enqueue_edit(...) puts an edit on the queue
DirectPut == Len(queue') > Len(queue) /\ ~ThreadsafePutRuns

\* C33: an edit put on the queue by enqueue_edit is not placed ahead of a
\* refresh that was submitted with enqueue_edit_threadsafe before it: none such
\* is still waiting for the loop when the edit enters the queue
C33_SubmissionOrderKept ==
    [][DirectPut => "put_status" \notin Range(loopCalls')]_vars

====
